---- MODULE Spec2Model ----
(***************************************************************************)
(* A model of the Game class of src/src/game/game.ts: the session state,  *)
(* the tick callback registered by the constructor (setInterval), and the *)
(* addPlayer and removePlayer methods.  JavaScript runs every callback to  *)
(* completion, so each of them is one action.  The tick callback is also  *)
(* given step by step (TickStart, TickResolve, TickBroadcast, TickReset), *)
(* with the timer that makes it pending and end() that clears the timer;  *)
(* pc is the callback's position and the handlers run only while it is    *)
(* "idle".                                                                 *)
(*                                                                         *)
(* Identities are those of the code: an object's id is its index in the   *)
(* registry (map.objects), counted from 0; the registry index of the      *)
(* sequence is id + 1.  The collections players, connectedPlayers,        *)
(* activePlayers and dirtyPlayers hold references, modelled as ids.        *)
(***************************************************************************)
EXTENDS Integers, Sequences, FiniteSets, TLC

(* ----------------------------- bounds --------------------------------- *)
MaxPlayers == 2
NumObstacles == 1
MaxRemoves == 3
MaxShots == 1
MaxTriggers == 3
MaxMovers == 1
MaxDepth == 2
MaxClock == 500
ClockStep == 125
MaxFighters == 3
MaxVolley == 2
MaxLeaves == 2
MaxEmotes == 1
MaxExplosions == 1
MaxQuits == 1
NumTargets == 2

(* ------------------------ program constants --------------------------- *)
MeleeCooldown == 250
MeleeDamage == 24
AnimThreshold == 8
MovementSpeed == 12
DiagonalSpeed == 8
ClockStart == MeleeCooldown

VARIABLES
    objects,             \* map.objects, the object registry
    players,             \* all players, including dead and disconnected ones
    connectedPlayers,    \* all connected players, may be dead
    activePlayers,       \* all connected and living players
    dirtyPlayers,
    aliveCount,
    aliveCountDirty,
    playerInfosDirty,
    deletedPlayerIds,
    emotes,
    explosions,
    kills,
    fullDirtyObjects,
    partialDirtyObjects,
    now,                 \* the clock Date.now() reads
    removeCalls,         \* number of removePlayer calls so far (bounded)
    shots,               \* number of shoot-start inputs so far (bounded)
    lastOp,              \* the callback that ran last
    lastArg,             \* the player it was called with (-1: none)
    sent,                \* the packets the last callback built, in order
    tickStart,           \* the dirty lists and the resting players the last tick found
    tickDirty,           \* the dirty lists as the last tick's broadcast saw them
    damages,             \* the damage calls of the last tick
    triggers,            \* the shoot-start triggers the last tick consumed
    tickEnd,             \* the transient state the last tick's reset found
    probe,               \* the collision query's answers in the last tick (kept on request)
    timer,               \* the setInterval handle is armed
    due,                 \* the timer's period has elapsed, its callback is pending
    pc,                  \* the position of the tick callback ("idle": not running)
    running,             \* tick callbacks started and not yet returned
    closed,              \* the players whose socket was closed by end
    ended                \* end was called

gameVars == <<objects, players, connectedPlayers, activePlayers, dirtyPlayers,
              aliveCount, aliveCountDirty, playerInfosDirty, deletedPlayerIds,
              emotes, explosions, kills, fullDirtyObjects, partialDirtyObjects>>
logVars == <<lastOp, lastArg, sent, tickStart, tickDirty, damages, triggers,
             tickEnd, probe>>
loopVars == <<timer, due, pc, running, closed, ended>>
vars == <<gameVars, now, removeCalls, shots, logVars, loopVars>>

(* ----------------------------- helpers -------------------------------- *)
Range(s) == {s[i] : i \in 1..Len(s)}

\* removeFrom(array, object) of ../utils: drops the first occurrence, if any.
RECURSIVE removeFrom(_, _)
removeFrom(array, x) ==
    IF array = <<>> THEN <<>>
    ELSE IF Head(array) = x THEN Tail(array)
    ELSE <<Head(array)>> \o removeFrom(Tail(array), x)

Obj(objs, id) == objs[id + 1]
SetObj(objs, id, o) == [objs EXCEPT ![id + 1] = o]
Ids(objs) == {i - 1 : i \in 1..Len(objs)}
IsPlayer(o) == o.kind = "player"

(* ----------------------------- objects -------------------------------- *)
\* GameObject fields (dead = false on construction) of an obstacle the map
\* generator put in the registry.
NewObstacle(id, destructible, isDoor, hasBody) ==
    [kind |-> "obstacle", id |-> id, dead |-> FALSE, hasBody |-> hasBody,
     destructible |-> destructible, isDoor |-> isDoor]

\* new Player(id, ...): the fields the Game reads and writes.  animAge,
\* animEndAge, animRefires, lastTrigRead and lastFireRead are history
\* fields: the ticks since the animation was entered, the age at which it
\* last returned to idle, the attacks triggered while it was active, and
\* the clock readings of the last consumed and the last firing shoot-start
\* trigger (-1: none yet).
NewPlayer(id) ==
    [kind |-> "player", id |-> id, dead |-> FALSE, hasBody |-> TRUE,
     destructible |-> FALSE, isDoor |-> FALSE,
     movingUp |-> FALSE, movingDown |-> FALSE,
     movingLeft |-> FALSE, movingRight |-> FALSE,
     moving |-> FALSE, velocity |-> <<0, 0>>,
     shootStart |-> FALSE, meleeCooldown |-> 0,
     animActive |-> FALSE, animType |-> 0, animSeq |-> 0, animTime |-> 0,
     visibleObjects |-> {}, fullObjects |-> <<>>, partialObjects |-> <<>>,
     skipObjectCalculations |-> FALSE,
     emotesDirty |-> FALSE, explosionsDirty |-> FALSE,
     emotes |-> <<>>, explosions |-> <<>>,
     quit |-> FALSE, direction |-> <<0, 1>>,
     animAge |-> 0, animEndAge |-> -1, animRefires |-> 0,
     lastTrigRead |-> -1, lastFireRead |-> -1]

(* ----------------------------- packets -------------------------------- *)
JoinedPacket(p) == [type |-> "joined", to |-> p.id]
MapPacket(p) == [type |-> "map", to |-> p.id]
AliveCountsPacket(p, count) == [type |-> "aliveCounts", to |-> p.id, alive |-> count]
KillPacket(kill, p) == [type |-> "kill", to |-> p.id, kill |-> kill]

\* new UpdatePacket(p): built from p's diff buffers and the session's
\* deleted-id list as they are at that moment; visible records p's
\* visibility set at that moment.
UpdatePacket(p, deleted) ==
    [type |-> "update", to |-> p.id, full |-> p.fullObjects,
     partial |-> p.partialObjects, deleted |-> deleted,
     visible |-> p.visibleObjects]

\* The diff buffers are consumed by the update packet built from them.
Flushed(p) == [p EXCEPT !.fullObjects = <<>>, !.partialObjects = <<>>]

(* ------------------------------- logs --------------------------------- *)
\* The logs of a callback that is not a tick.
NoTickStart == [full |-> <<>>, partial |-> <<>>, deleted |-> <<>>, resting |-> {}]
NoTickDirty == [full |-> <<>>, partial |-> <<>>, resolved |-> <<>>]
NoTickEnd ==
    [emotes |-> <<>>, explosions |-> <<>>, kills |-> <<>>, dirtyPlayers |-> <<>>,
     deletedPlayerIds |-> <<>>, aliveCountDirty |-> FALSE]
NoProbe == <<>>

(* ------------------------------- Init --------------------------------- *)
\* The state after the constructor: the map generator has filled the
\* registry with obstacles, no player has joined, the timer is armed.
InitObjects(objs) ==
    /\ objects = objs
    /\ players = <<>>
    /\ connectedPlayers = <<>>
    /\ activePlayers = <<>>
    /\ dirtyPlayers = <<>>
    /\ aliveCount = 0
    /\ aliveCountDirty = FALSE
    /\ playerInfosDirty = FALSE
    /\ deletedPlayerIds = <<>>
    /\ emotes = <<>>
    /\ explosions = <<>>
    /\ kills = <<>>
    /\ fullDirtyObjects = <<>>
    /\ partialDirtyObjects = <<>>
    /\ now = ClockStart
    /\ removeCalls = 0
    /\ shots = 0
    /\ lastOp = "init"
    /\ lastArg = -1
    /\ sent = <<>>
    /\ tickStart = NoTickStart
    /\ tickDirty = NoTickDirty
    /\ damages = <<>>
    /\ triggers = <<>>
    /\ tickEnd = NoTickEnd
    /\ probe = NoProbe
    /\ timer = TRUE
    /\ due = FALSE
    /\ pc = "idle"
    /\ running = 0
    /\ closed = {}
    /\ ended = FALSE

Init ==
    InitObjects([i \in 1..NumObstacles |-> NewObstacle(i - 1, TRUE, TRUE, TRUE)])

\* A map whose first obstacle is of any kind, destructible or not, with or
\* without a body, before destructible obstacles with a body.
InitTarget ==
    \E d \in BOOLEAN, b \in BOOLEAN :
        InitObjects([i \in 1..NumTargets |->
                        IF i = 1 THEN NewObstacle(0, d, TRUE, b)
                        ELSE NewObstacle(i - 1, TRUE, TRUE, TRUE)])

\* The logs of a tick describe the last callback only.
NoTickLog ==
    /\ tickStart' = NoTickStart
    /\ tickDirty' = NoTickDirty
    /\ damages' = <<>>
    /\ triggers' = <<>>
    /\ tickEnd' = NoTickEnd
    /\ probe' = NoProbe

(* ----------------------------- addPlayer ------------------------------ *)
\* The burst addPlayer writes for the new player p: the joined packet, then
\* in one stream the map packet, the update packet (after p's own id was
\* pushed into p.fullObjects) and the alive-count packet.
\* Mutant: the update packet is built before the player's own id is pushed.
JoinBurstLate(p, deleted, count) ==
    <<JoinedPacket(p), MapPacket(p), UpdatePacket(p, deleted),
      AliveCountsPacket(p, count)>>

JoinBurst(p, deleted, count) ==
    LET q == [p EXCEPT !.fullObjects = Append(@, p.id)]
    IN  <<JoinedPacket(p), MapPacket(p), UpdatePacket(q, deleted),
          AliveCountsPacket(q, count)>>

\* Mutant: the identity is counted from the connected players.
NextIdByConnected == NumObstacles + Len(connectedPlayers)

\* The identity of the next player: the size of the registry.
NextId == Len(objects)

AddPlayerUpTo(n) ==
    /\ pc = "idle"
    /\ Len(players) < n
    /\ LET id == NextId
           p == NewPlayer(id)
       IN  /\ objects' = Append(objects, Flushed(p))
           /\ players' = Append(players, id)
           /\ connectedPlayers' = Append(connectedPlayers, id)
           /\ activePlayers' = Append(activePlayers, id)
           /\ dirtyPlayers' = Append(dirtyPlayers, id)
           /\ fullDirtyObjects' = Append(fullDirtyObjects, id)
           /\ aliveCount' = aliveCount + 1
           /\ aliveCountDirty' = TRUE
           /\ playerInfosDirty' = TRUE
           /\ sent' = JoinBurst(p, deletedPlayerIds, aliveCount + 1)
           /\ lastOp' = "addPlayer"
           /\ lastArg' = id
    /\ NoTickLog
    /\ UNCHANGED <<deletedPlayerIds, emotes, explosions, kills,
                   partialDirtyObjects, now, removeCalls, shots, loopVars>>

AddPlayer == AddPlayerUpTo(MaxPlayers)

(* ---------------------------- removePlayer ---------------------------- *)
\* Mutant: removePlayer forgets to push the identity to partialDirtyObjects.
RemovePlayerNoPartialPush(n) ==
    /\ pc = "idle"
    /\ removeCalls < n
    /\ \E id \in Range(players) :
        LET p == Obj(objects, id)
        IN  /\ objects' = SetObj(objects, id,
                              [p EXCEPT !.direction = <<1, 0>>, !.quit = TRUE])
            /\ deletedPlayerIds' = Append(deletedPlayerIds, id)
            /\ partialDirtyObjects' = partialDirtyObjects
            /\ activePlayers' = removeFrom(activePlayers, id)
            /\ connectedPlayers' = removeFrom(connectedPlayers, id)
            /\ IF ~p.dead
               THEN aliveCount' = aliveCount - 1 /\ aliveCountDirty' = TRUE
               ELSE UNCHANGED <<aliveCount, aliveCountDirty>>
            /\ lastArg' = id
    /\ removeCalls' = removeCalls + 1
    /\ lastOp' = "removePlayer"
    /\ sent' = <<>>
    /\ NoTickLog
    /\ UNCHANGED <<players, dirtyPlayers, playerInfosDirty, emotes, explosions,
                   kills, fullDirtyObjects, now, shots, loopVars>>

\* Mutant: removePlayer removes the player from players instead of connectedPlayers.
RemovePlayerStaysConnected(n) ==
    /\ pc = "idle"
    /\ removeCalls < n
    /\ \E id \in Range(players) :
        LET p == Obj(objects, id)
        IN  /\ objects' = SetObj(objects, id,
                              [p EXCEPT !.direction = <<1, 0>>, !.quit = TRUE])
            /\ deletedPlayerIds' = Append(deletedPlayerIds, id)
            /\ partialDirtyObjects' = Append(partialDirtyObjects, id)
            /\ activePlayers' = removeFrom(activePlayers, id)
            /\ connectedPlayers' = connectedPlayers
            /\ players' = removeFrom(players, id)
            /\ IF ~p.dead
               THEN aliveCount' = aliveCount - 1 /\ aliveCountDirty' = TRUE
               ELSE UNCHANGED <<aliveCount, aliveCountDirty>>
            /\ lastArg' = id
    /\ removeCalls' = removeCalls + 1
    /\ lastOp' = "removePlayer"
    /\ sent' = <<>>
    /\ NoTickLog
    /\ UNCHANGED <<dirtyPlayers, playerInfosDirty, emotes, explosions,
                   kills, fullDirtyObjects, now, shots, loopVars>>

\* Mutant: removePlayer forgets to remove the player from activePlayers.
RemovePlayerStaysActive(n) ==
    /\ pc = "idle"
    /\ removeCalls < n
    /\ \E id \in Range(players) :
        LET p == Obj(objects, id)
        IN  /\ objects' = SetObj(objects, id,
                              [p EXCEPT !.direction = <<1, 0>>, !.quit = TRUE])
            /\ deletedPlayerIds' = Append(deletedPlayerIds, id)
            /\ partialDirtyObjects' = Append(partialDirtyObjects, id)
            /\ activePlayers' = activePlayers
            /\ connectedPlayers' = removeFrom(connectedPlayers, id)
            /\ IF ~p.dead
               THEN aliveCount' = aliveCount - 1 /\ aliveCountDirty' = TRUE
               ELSE UNCHANGED <<aliveCount, aliveCountDirty>>
            /\ lastArg' = id
    /\ removeCalls' = removeCalls + 1
    /\ lastOp' = "removePlayer"
    /\ sent' = <<>>
    /\ NoTickLog
    /\ UNCHANGED <<players, dirtyPlayers, playerInfosDirty, emotes, explosions,
                   kills, fullDirtyObjects, now, shots, loopVars>>

\* removePlayer(p) for a player p of this session; n bounds the calls.
RemovePlayerUpTo(n) ==
    /\ pc = "idle"
    /\ removeCalls < n
    /\ \E id \in Range(players) :
        LET p == Obj(objects, id)
        IN  /\ objects' = SetObj(objects, id,
                              [p EXCEPT !.direction = <<1, 0>>, !.quit = TRUE])
            /\ deletedPlayerIds' = Append(deletedPlayerIds, id)
            /\ partialDirtyObjects' = Append(partialDirtyObjects, id)
            /\ activePlayers' = removeFrom(activePlayers, id)
            /\ connectedPlayers' = removeFrom(connectedPlayers, id)
            /\ IF ~p.dead
               THEN aliveCount' = aliveCount - 1 /\ aliveCountDirty' = TRUE
               ELSE UNCHANGED <<aliveCount, aliveCountDirty>>
            /\ lastArg' = id
    /\ removeCalls' = removeCalls + 1
    /\ lastOp' = "removePlayer"
    /\ sent' = <<>>
    /\ NoTickLog
    /\ UNCHANGED <<players, dirtyPlayers, playerInfosDirty, emotes, explosions,
                   kills, fullDirtyObjects, now, shots, loopVars>>

RemovePlayer == RemovePlayerUpTo(MaxRemoves)

(* ------------------------- the tick callback -------------------------- *)
\* The session state a tick works on, threaded through its two loops.
GameState ==
    [objects |-> objects, connectedPlayers |-> connectedPlayers,
     activePlayers |-> activePlayers, aliveCount |-> aliveCount,
     aliveCountDirty |-> aliveCountDirty, deletedPlayerIds |-> deletedPlayerIds,
     emotes |-> emotes, explosions |-> explosions, kills |-> kills,
     fullDirtyObjects |-> fullDirtyObjects,
     partialDirtyObjects |-> partialDirtyObjects,
     now |-> now, sent |-> <<>>, damages |-> <<>>, triggers |-> <<>>,
     resolved |-> <<>>]

setVelocity(p, x, y) == [p EXCEPT !.velocity = <<x, y>>]

\* Mutant: the single directions are checked before the diagonal pairs.
MovementSinglesFirst(p) ==
    LET s == MovementSpeed
        ds == DiagonalSpeed
        q == [p EXCEPT !.moving = TRUE]
    IN  IF q.movingUp THEN setVelocity(q, 0, s)
        ELSE IF q.movingDown THEN setVelocity(q, 0, -s)
        ELSE IF q.movingLeft THEN setVelocity(q, -s, 0)
        ELSE IF q.movingRight THEN setVelocity(q, s, 0)
        ELSE [setVelocity(q, 0, 0) EXCEPT !.moving = FALSE]

\* Movement: the if/else chain over the four direction flags.
Movement(p) ==
    LET s == MovementSpeed
        ds == DiagonalSpeed
        q == [p EXCEPT !.moving = TRUE]
    IN  IF q.movingUp /\ q.movingLeft THEN setVelocity(q, -ds, ds)
        ELSE IF q.movingUp /\ q.movingRight THEN setVelocity(q, ds, ds)
        ELSE IF q.movingDown /\ q.movingLeft THEN setVelocity(q, -ds, -ds)
        ELSE IF q.movingDown /\ q.movingRight THEN setVelocity(q, ds, -ds)
        ELSE IF q.movingUp THEN setVelocity(q, 0, s)
        ELSE IF q.movingDown THEN setVelocity(q, 0, -s)
        ELSE IF q.movingLeft THEN setVelocity(q, -s, 0)
        ELSE IF q.movingRight THEN setVelocity(q, s, 0)
        ELSE [setVelocity(q, 0, 0) EXCEPT !.moving = FALSE]

\* No direction flag is set and no animation is active.
Resting(p) ==
    /\ ~p.movingUp /\ ~p.movingDown /\ ~p.movingLeft /\ ~p.movingRight
    /\ ~p.animActive

\* Mutant: the check forgets to subtract the cooldown timestamp.
CooldownElapsedNoStamp(read, p) == read >= MeleeCooldown

\* Date.now() - p.meleeCooldown >= 250
CooldownElapsed(read, p) == read - p.meleeCooldown >= MeleeCooldown

\* Start punching animation, unless one is active.
StartAnim(p) ==
    IF ~p.animActive
    THEN [p EXCEPT !.animActive = TRUE, !.animType = 1, !.animTime = 0]
    ELSE p

\* The scan for the melee target: overlap[id] is the penetration depth the
\* collision query reports for the probe body and the object's body (0: the
\* bodies do not collide).  The result is the id of closestObject, -1 for
\* null.
\* Mutant: a candidate of equal depth replaces the one found before.
RECURSIVE ClosestFromLastWins(_, _, _, _, _, _)
ClosestFromLastWins(objs, pid, overlap, i, maxDepth, closest) ==
    IF i > Len(objs) THEN closest
    ELSE LET object == objs[i]
         IN  IF ~object.hasBody \/ object.dead \/ object.id = pid
             THEN ClosestFromLastWins(objs, pid, overlap, i + 1, maxDepth, closest)
             ELSE IF /\ (object.kind = "obstacle" /\ object.destructible)
                        \/ IsPlayer(object)
                     /\ overlap[object.id] > 0
                     /\ overlap[object.id] >= maxDepth
             THEN ClosestFromLastWins(objs, pid, overlap, i + 1,
                                      overlap[object.id], object.id)
             ELSE ClosestFromLastWins(objs, pid, overlap, i + 1, maxDepth, closest)

RECURSIVE ClosestFrom(_, _, _, _, _, _)
ClosestFrom(objs, pid, overlap, i, maxDepth, closest) ==
    IF i > Len(objs) THEN closest
    ELSE LET object == objs[i]
         IN  IF ~object.hasBody \/ object.dead \/ object.id = pid
             THEN ClosestFrom(objs, pid, overlap, i + 1, maxDepth, closest)
             ELSE IF /\ (object.kind = "obstacle" /\ object.destructible)
                        \/ IsPlayer(object)
                     /\ overlap[object.id] > 0
                     /\ overlap[object.id] > maxDepth
             THEN ClosestFrom(objs, pid, overlap, i + 1, overlap[object.id], object.id)
             ELSE ClosestFrom(objs, pid, overlap, i + 1, maxDepth, closest)

ClosestObject(objs, pid, overlap) == ClosestFrom(objs, pid, overlap, 1, -1, -1)

\* closestObject.damage(amount, source), and interact for a door.  The hit
\* is lethal when the attacker is in the set lethal (health is not part of
\* the model).  A player that dies is dead and leaves the active set;
\* the alive count follows if the player was still active.
Damage(st, target, amount, source, lethal) ==
    LET t == Obj(st.objects, target)
        hit == [to |-> target, by |-> source, amount |-> amount,
                wasDead |-> t.dead,
                interact |-> (t.kind = "obstacle" /\ t.isDoor)]
        st1 == [st EXCEPT !.damages = Append(@, hit)]
        died == [st1 EXCEPT !.objects = SetObj(@, target, [t EXCEPT !.dead = TRUE])]
    IN  IF source \notin lethal \/ t.dead THEN st1
        ELSE IF IsPlayer(t) /\ target \in Range(st.activePlayers)
        THEN [died EXCEPT !.activePlayers = removeFrom(@, target),
                          !.aliveCount = @ - 1,
                          !.aliveCountDirty = TRUE,
                          !.kills = Append(@, [killer |-> source, killed |-> target])]
        ELSE died

\* if(p.shootStart) { ... }: the cooldown check, the animation start and
\* the melee hit.  in.lag[id] is the time between the two Date.now() reads.
ShootStep(st, id, in) ==
    LET p == Obj(st.objects, id)
        read == st.now
        p1 == [p EXCEPT !.shootStart = FALSE, !.lastTrigRead = read]
        note == [id |-> id, read |-> read, prevTrig |-> p.lastTrigRead,
                 prevFire |-> p.lastFireRead, cooldownBefore |-> p.meleeCooldown,
                 deadBefore |-> {i \in Ids(st.objects) : Obj(st.objects, i).dead}]
    IN  IF ~p.shootStart THEN st
        ELSE IF CooldownElapsed(read, p)
        THEN LET set == read + in.lag[id]
                 p2 == StartAnim([p1 EXCEPT !.meleeCooldown = set,
                                            !.lastFireRead = read])
                 st1 == [st EXCEPT !.objects = SetObj(@, id, p2), !.now = set]
                 closest == ClosestObject(st1.objects, id, in.overlap)
                 st2 == IF closest # -1
                        THEN Damage(st1, closest, MeleeDamage, id, in.lethal)
                        ELSE st1
             IN  [st2 EXCEPT !.triggers = Append(@,
                     [fired |-> TRUE, cooldownAfter |-> set, target |-> closest]
                         @@ note)]
        ELSE [st EXCEPT !.objects = SetObj(@, id, p1),
                        !.triggers = Append(@,
                            [fired |-> FALSE, cooldownAfter |-> p.meleeCooldown,
                             target |-> -1] @@ note)]

\* Mutant: the animation ends when elapsed reaches the threshold.
AnimStepEarly(st, id) ==
    LET p == Obj(st.objects, id)
        t == p.animTime + 1
        q == [p EXCEPT !.fullObjects = Append(@, id), !.animTime = t, !.animSeq = 1]
        r == IF t >= AnimThreshold
             THEN [q EXCEPT !.animActive = FALSE, !.animType = 0,
                            !.animSeq = 0, !.animTime = 0,
                            !.animEndAge = q.animAge]
             ELSE q
    IN  IF p.animActive
        THEN [st EXCEPT !.fullDirtyObjects = Append(@, id),
                        !.objects = SetObj(@, id, r)]
        ELSE [st EXCEPT !.partialDirtyObjects = Append(@, id),
                        !.objects = SetObj(@, id,
                                       [p EXCEPT !.partialObjects = Append(@, id)])]

\* Mutant: an idle player is pushed to the partial lists only when moving.
AnimStepMovingOnly(st, id) ==
    LET p == Obj(st.objects, id)
        t == p.animTime + 1
        q == [p EXCEPT !.fullObjects = Append(@, id), !.animTime = t, !.animSeq = 1]
        r == IF t > AnimThreshold
             THEN [q EXCEPT !.animActive = FALSE, !.animType = 0,
                            !.animSeq = 0, !.animTime = 0,
                            !.animEndAge = q.animAge]
             ELSE q
    IN  IF p.animActive
        THEN [st EXCEPT !.fullDirtyObjects = Append(@, id),
                        !.objects = SetObj(@, id, r)]
        ELSE IF p.moving
        THEN [st EXCEPT !.partialDirtyObjects = Append(@, id),
                        !.objects = SetObj(@, id,
                                       [p EXCEPT !.partialObjects = Append(@, id)])]
        ELSE st

\* if(p.animActive) { ... } else { ... }: the animation advance and the
\* push of p's id into the dirty lists and into p's own buffers.
AnimStep(st, id) ==
    LET p == Obj(st.objects, id)
        t == p.animTime + 1
        q == [p EXCEPT !.fullObjects = Append(@, id), !.animTime = t, !.animSeq = 1]
        r == IF t > AnimThreshold
             THEN [q EXCEPT !.animActive = FALSE, !.animType = 0,
                            !.animSeq = 0, !.animTime = 0,
                            !.animEndAge = q.animAge]
             ELSE q
    IN  IF p.animActive
        THEN [st EXCEPT !.fullDirtyObjects = Append(@, id),
                        !.objects = SetObj(@, id, r)]
        ELSE [st EXCEPT !.partialDirtyObjects = Append(@, id),
                        !.objects = SetObj(@, id,
                                       [p EXCEPT !.partialObjects = Append(@, id)])]

\* History: the animation's age in ticks, 0 in the tick that entered it,
\* and the attacks triggered since while it was active.
Aged(st, id, wasActive, age) ==
    LET p == Obj(st.objects, id)
        a == IF ~wasActive /\ p.animActive THEN 0
             ELSE IF wasActive THEN age + 1 ELSE age
        fired == \E k \in 1..Len(st.triggers) :
                    st.triggers[k].id = id /\ st.triggers[k].fired
        n == IF ~wasActive /\ p.animActive THEN 0
             ELSE IF wasActive /\ fired THEN p.animRefires + 1
             ELSE p.animRefires
    IN  [st EXCEPT !.objects = SetObj(@, id,
                       [p EXCEPT !.animAge = a, !.animRefires = n])]

\* The body of the first loop for one active player; resolved lists the
\* players the loop has run its body for.
ResolvePlayer(st, id, in) ==
    LET p == Obj(st.objects, id)
        moved == [st EXCEPT !.objects = SetObj(@, id, Movement(p)),
                            !.resolved = Append(@, id)]
        shot == ShootStep(moved, id, in)
    IN  AnimStep(Aged(shot, id, p.animActive, p.animAge), id)

\* for(const p of this.activePlayers): the array iterator reads the array
\* by index each round, so a player removed from it by a death during the
\* loop shifts the players behind it.
RECURSIVE FirstLoop(_, _, _)
FirstLoop(st, i, in) ==
    IF i > Len(st.activePlayers) THEN st
    ELSE FirstLoop(ResolvePlayer(st, st.activePlayers[i], in), i + 1, in)

\* Mutant: the broadcast pass forgets the visibility filter.
VisibleAll(ids, p) == ids

Visible(ids, p) ==
    LET Seen(id) == id \in p.visibleObjects
    IN  SelectSeq(ids, Seen)

\* The body of the second loop for one connected player.
BroadcastPlayer(st, id) ==
    LET p == Obj(st.objects, id)
        p1 == [p EXCEPT !.skipObjectCalculations =
                   (Len(st.fullDirtyObjects) = 0
                    /\ Len(st.partialDirtyObjects) = 0 /\ ~p.moving)]
        p2 == IF Len(st.emotes) > 0
              THEN [p1 EXCEPT !.emotesDirty = TRUE, !.emotes = st.emotes] ELSE p1
        p3 == IF Len(st.explosions) > 0
              THEN [p2 EXCEPT !.explosionsDirty = TRUE, !.explosions = st.explosions]
              ELSE p2
        p4 == [p3 EXCEPT !.fullObjects = @ \o Visible(st.fullDirtyObjects, p)]
        p5 == [p4 EXCEPT !.partialObjects = @ \o Visible(st.partialDirtyObjects, p)]
        packets == <<UpdatePacket(p5, st.deletedPlayerIds)>>
                   \o (IF st.aliveCountDirty
                       THEN <<AliveCountsPacket(p5, st.aliveCount)>> ELSE <<>>)
                   \o [k \in 1..Len(st.kills) |-> KillPacket(st.kills[k], p5)]
    IN  [st EXCEPT !.objects = SetObj(@, id, Flushed(p5)),
                   !.sent = @ \o packets]

RECURSIVE SecondLoop(_, _)
SecondLoop(st, i) ==
    IF i > Len(st.connectedPlayers) THEN st
    ELSE SecondLoop(BroadcastPlayer(st, st.connectedPlayers[i]), i + 1)

RECURSIVE SetSum(_, _)
SetSum(f, S) ==
    IF S = {} THEN 0
    ELSE LET x == CHOOSE y \in S : TRUE IN f[x] + SetSum(f, S \ {x})

\* The inputs of one tick: the collision query's answers, the attackers
\* whose hit is lethal, and the clock's advance between the two reads of
\* each trigger.
TickInputs(shooters, lags) ==
    IF shooters = {}
    THEN {[overlap |-> [i \in Ids(objects) |-> 0], lethal |-> {},
           lag |-> [s \in {} |-> 0]]}
    ELSE {[overlap |-> o, lethal |-> l, lag |-> g] :
            o \in [Ids(objects) -> 0..MaxDepth],
            l \in SUBSET shooters,
            g \in [shooters -> lags]}

\* Mutant: the reset forgets the kill notifications.
ResetKeepsKills ==
    /\ emotes' = <<>>
    /\ explosions' = <<>>
    /\ kills' = kills
    /\ fullDirtyObjects' = <<>>
    /\ partialDirtyObjects' = <<>>
    /\ dirtyPlayers' = <<>>
    /\ deletedPlayerIds' = <<>>
    /\ aliveCountDirty' = FALSE

\* Mutant: the reset forgets deletedPlayerIds.
ResetKeepsDeleted ==
    /\ emotes' = <<>>
    /\ explosions' = <<>>
    /\ kills' = <<>>
    /\ fullDirtyObjects' = <<>>
    /\ partialDirtyObjects' = <<>>
    /\ dirtyPlayers' = <<>>
    /\ deletedPlayerIds' = deletedPlayerIds
    /\ aliveCountDirty' = FALSE

\* Mutant: the reset forgets partialDirtyObjects.
ResetKeepsPartial ==
    /\ emotes' = <<>>
    /\ explosions' = <<>>
    /\ kills' = <<>>
    /\ fullDirtyObjects' = <<>>
    /\ partialDirtyObjects' = partialDirtyObjects
    /\ dirtyPlayers' = <<>>
    /\ deletedPlayerIds' = <<>>
    /\ aliveCountDirty' = FALSE

\* Reset everything
Reset ==
    /\ emotes' = <<>>
    /\ explosions' = <<>>
    /\ kills' = <<>>
    /\ fullDirtyObjects' = <<>>
    /\ partialDirtyObjects' = <<>>
    /\ dirtyPlayers' = <<>>
    /\ deletedPlayerIds' = <<>>
    /\ aliveCountDirty' = FALSE

\* The players with a pending shoot-start trigger the first loop will find.
Shooters == {id \in Range(activePlayers) : Obj(objects, id).shootStart}

\* What a tick finds when it starts.
TickFinds ==
    [full |-> fullDirtyObjects, partial |-> partialDirtyObjects,
     deleted |-> deletedPlayerIds,
     resting |-> {id \in Range(activePlayers) : Resting(Obj(objects, id))}]

\* One run of the setInterval callback; dt is the time since the clock was
\* last read, taken from steps, and the clock's advance between the two
\* reads of a trigger is taken from lags.  The collision query's answers
\* are kept in probe when keep is set.
TickTraced(steps, lags, keep) ==
    \E dt \in steps :
    \E in \in TickInputs(Shooters, lags) :
        /\ timer
        /\ pc = "idle"
        /\ now + dt + SetSum(in.lag, DOMAIN in.lag) <= MaxClock
        /\ LET st0 == [GameState EXCEPT !.now = now + dt]
               st1 == FirstLoop(st0, 1, in)
               st2 == SecondLoop(st1, 1)
           IN  /\ objects' = st2.objects
               /\ activePlayers' = st2.activePlayers
               /\ aliveCount' = st2.aliveCount
               /\ now' = st2.now
               /\ sent' = st2.sent
               /\ damages' = st2.damages
               /\ triggers' = st2.triggers
               /\ tickStart' = TickFinds
               /\ tickDirty' = [full |-> st1.fullDirtyObjects,
                                partial |-> st1.partialDirtyObjects,
                                resolved |-> st1.resolved]
               /\ tickEnd' = [emotes |-> st2.emotes,
                              explosions |-> st2.explosions,
                              kills |-> st2.kills,
                              dirtyPlayers |-> dirtyPlayers,
                              deletedPlayerIds |-> st2.deletedPlayerIds,
                              aliveCountDirty |-> st2.aliveCountDirty]
               /\ probe' = IF keep THEN in.overlap ELSE NoProbe
               /\ Reset
        /\ lastOp' = "tick"
        /\ lastArg' = -1
        /\ UNCHANGED <<players, connectedPlayers, playerInfosDirty, removeCalls,
                       shots, loopVars>>

TickWith(steps, lags) == TickTraced(steps, lags, FALSE)

\* A tick with the clock running, and one that reads the clock it read before.
Tick == TickWith({0, ClockStep}, {0, ClockStep})
TickSameClock == TickWith({0}, {0})
TickTarget == TickTraced({0}, {0}, TRUE)

(* ------------------------- connection input --------------------------- *)
\* An input packet of a connected player sets its shoot-start flag.
ShootStartUpTo(n) ==
    /\ pc = "idle"
    /\ shots < n
    /\ shots' = shots + 1
    /\ \E id \in Range(connectedPlayers) :
        /\ ~Obj(objects, id).shootStart
        /\ objects' = SetObj(objects, id, [Obj(objects, id) EXCEPT !.shootStart = TRUE])
        /\ lastArg' = id
    /\ lastOp' = "input"
    /\ sent' = <<>>
    /\ NoTickLog
    /\ UNCHANGED <<players, connectedPlayers, activePlayers, dirtyPlayers,
                   aliveCount, aliveCountDirty, playerInfosDirty,
                   deletedPlayerIds, emotes, explosions, kills,
                   fullDirtyObjects, partialDirtyObjects, now, removeCalls,
                   loopVars>>

ShootStart == ShootStartUpTo(MaxShots)

\* An input packet of a connected player sets its four direction flags.
MoveInput ==
    /\ pc = "idle"
    /\ \E id \in Range(connectedPlayers) :
       \E up \in BOOLEAN, down \in BOOLEAN, left \in BOOLEAN, right \in BOOLEAN :
        /\ objects' = SetObj(objects, id,
               [Obj(objects, id) EXCEPT !.movingUp = up, !.movingDown = down,
                                        !.movingLeft = left, !.movingRight = right])
        /\ lastArg' = id
    /\ lastOp' = "input"
    /\ sent' = <<>>
    /\ NoTickLog
    /\ UNCHANGED <<players, connectedPlayers, activePlayers, dirtyPlayers,
                   aliveCount, aliveCountDirty, playerInfosDirty,
                   deletedPlayerIds, emotes, explosions, kills,
                   fullDirtyObjects, partialDirtyObjects, now, removeCalls,
                   shots, loopVars>>

\* The visibility set of a connected player is recomputed (the call in the
\* tick is commented out; the set changes between callbacks).
UpdateVisibleObjects ==
    /\ pc = "idle"
    /\ \E id \in Range(connectedPlayers) :
       \E seen \in SUBSET Ids(objects) :
        /\ objects' = SetObj(objects, id,
               [Obj(objects, id) EXCEPT !.visibleObjects = seen])
        /\ lastArg' = id
    /\ lastOp' = "visible"
    /\ sent' = <<>>
    /\ NoTickLog
    /\ UNCHANGED <<players, connectedPlayers, activePlayers, dirtyPlayers,
                   aliveCount, aliveCountDirty, playerInfosDirty,
                   deletedPlayerIds, emotes, explosions, kills,
                   fullDirtyObjects, partialDirtyObjects, now, removeCalls,
                   shots, loopVars>>

\* An emote packet of a connected player queues an emote for the next
\* broadcast pass.
EmoteInput ==
    /\ pc = "idle"
    /\ Len(emotes) < MaxEmotes
    /\ \E id \in Range(connectedPlayers) :
        /\ emotes' = Append(emotes, [playerId |-> id])
        /\ lastArg' = id
    /\ lastOp' = "emote"
    /\ sent' = <<>>
    /\ NoTickLog
    /\ UNCHANGED <<objects, players, connectedPlayers, activePlayers, dirtyPlayers,
                   aliveCount, aliveCountDirty, playerInfosDirty,
                   deletedPlayerIds, explosions, kills,
                   fullDirtyObjects, partialDirtyObjects, now, removeCalls,
                   shots, loopVars>>

\* An explosion is queued for the next broadcast pass.
Explode ==
    /\ pc = "idle"
    /\ Len(explosions) < MaxExplosions
    /\ explosions' = Append(explosions, [level |-> 0])
    /\ lastOp' = "explosion"
    /\ lastArg' = -1
    /\ sent' = <<>>
    /\ NoTickLog
    /\ UNCHANGED <<objects, players, connectedPlayers, activePlayers, dirtyPlayers,
                   aliveCount, aliveCountDirty, playerInfosDirty,
                   deletedPlayerIds, emotes, kills,
                   fullDirtyObjects, partialDirtyObjects, now, removeCalls,
                   shots, loopVars>>

(* ------------------- the timer and the callback's steps ---------------- *)
\* The period of setInterval elapses and the callback becomes pending; the
\* period does not wait for a callback that is still running.
TimerFires ==
    /\ timer
    /\ ~due
    /\ due' = TRUE
    /\ UNCHANGED <<gameVars, now, removeCalls, shots, logVars, timer, pc,
                   running, closed, ended>>

\* What the entry of the callback does once it is dispatched.
TickEntry ==
    /\ due' = FALSE
    /\ pc' = "resolve"
    /\ running' = running + 1
    /\ tickStart' = TickFinds
    /\ tickDirty' = NoTickDirty
    /\ tickEnd' = NoTickEnd
    /\ probe' = NoProbe
    /\ damages' = <<>>
    /\ triggers' = <<>>
    /\ sent' = <<>>
    /\ lastOp' = "tick"
    /\ lastArg' = -1
    /\ UNCHANGED <<gameVars, now, removeCalls, shots, timer, closed, ended>>

\* Mutant: the pending callback is dispatched while a callback is running.
TickStartReentrant ==
    /\ timer
    /\ due
    /\ TickEntry

\* The timer's callback is entered (Engine.update): the event loop
\* dispatches a pending callback only when no callback is running, and a
\* cleared timer's callback never.
TickStart ==
    /\ pc = "idle"
    /\ timer
    /\ due
    /\ TickEntry

\* First loop: calculate movement & animations.
TickResolve ==
    /\ pc = "resolve"
    /\ \E in \in TickInputs(Shooters, {0}) :
        LET st1 == FirstLoop(GameState, 1, in)
        IN  /\ objects' = st1.objects
            /\ activePlayers' = st1.activePlayers
            /\ aliveCount' = st1.aliveCount
            /\ aliveCountDirty' = st1.aliveCountDirty
            /\ kills' = st1.kills
            /\ fullDirtyObjects' = st1.fullDirtyObjects
            /\ partialDirtyObjects' = st1.partialDirtyObjects
            /\ now' = st1.now
            /\ damages' = st1.damages
            /\ triggers' = st1.triggers
            /\ tickDirty' = [full |-> st1.fullDirtyObjects,
                             partial |-> st1.partialDirtyObjects,
                             resolved |-> st1.resolved]
    /\ pc' = "broadcast"
    /\ UNCHANGED <<players, connectedPlayers, dirtyPlayers, playerInfosDirty,
                   deletedPlayerIds, emotes, explosions, removeCalls, shots,
                   lastOp, lastArg, sent, tickStart, tickEnd, probe,
                   timer, due, running, closed, ended>>

\* Second loop: calculate visible objects & send packets.
TickBroadcast ==
    /\ pc = "broadcast"
    /\ LET st2 == SecondLoop(GameState, 1)
       IN  /\ objects' = st2.objects
           /\ sent' = st2.sent
    /\ pc' = "reset"
    /\ UNCHANGED <<players, connectedPlayers, activePlayers, dirtyPlayers,
                   aliveCount, aliveCountDirty, playerInfosDirty,
                   deletedPlayerIds, emotes, explosions, kills,
                   fullDirtyObjects, partialDirtyObjects, now, removeCalls,
                   shots, lastOp, lastArg, tickStart, tickDirty, damages,
                   triggers, tickEnd, probe, timer, due, running, closed,
                   ended>>

\* Reset everything; the callback returns.
TickReset ==
    /\ pc = "reset"
    /\ tickEnd' = [emotes |-> emotes, explosions |-> explosions, kills |-> kills,
                   dirtyPlayers |-> dirtyPlayers,
                   deletedPlayerIds |-> deletedPlayerIds,
                   aliveCountDirty |-> aliveCountDirty]
    /\ Reset
    /\ pc' = "idle"
    /\ running' = running - 1
    /\ UNCHANGED <<objects, players, connectedPlayers, activePlayers,
                   aliveCount, playerInfosDirty, now, removeCalls, shots,
                   lastOp, lastArg, sent, tickStart, tickDirty, damages,
                   triggers, probe, timer, due, closed, ended>>

(* -------------------------------- end --------------------------------- *)
\* Mutant: end closes the sockets and forgets to clear the timer.
EndKeepsTimer ==
    /\ pc = "idle"
    /\ closed' = closed \cup Range(players)
    /\ ended' = TRUE
    /\ lastOp' = "end"
    /\ lastArg' = -1
    /\ sent' = <<>>
    /\ NoTickLog
    /\ UNCHANGED <<gameVars, now, removeCalls, shots, timer, due, pc, running>>

\* end(): closes the socket of every player in players and clears the
\* timer; a cleared timer's pending callback is discarded.
End ==
    /\ pc = "idle"
    /\ closed' = closed \cup Range(players)
    /\ timer' = FALSE
    /\ due' = FALSE
    /\ ended' = TRUE
    /\ lastOp' = "end"
    /\ lastArg' = -1
    /\ sent' = <<>>
    /\ NoTickLog
    /\ UNCHANGED <<gameVars, now, removeCalls, shots, pc, running>>

ShootStartMelee == ShootStartUpTo(MaxTriggers)
ShootStartVolley == ShootStartUpTo(MaxVolley)
RemoveQuitter == RemovePlayerUpTo(MaxQuits)
RemoveLeaver == RemovePlayerUpTo(MaxLeaves)
AddAttacker == AddPlayerUpTo(1)
AddMover == AddPlayerUpTo(MaxMovers)
AddFighter == AddPlayerUpTo(MaxFighters)

(* -------------------------- specifications ---------------------------- *)
\* The session's life: joins, leaves, ticks and a bounded number of attacks.
Next == AddPlayer \/ RemovePlayer \/ TickSameClock \/ ShootStart

Spec == Init /\ [][Next]_vars

\* Melee timing: attacks against the running clock.
NextMelee == AddAttacker \/ Tick \/ ShootStartMelee

SpecMelee == Init /\ [][NextMelee]_vars

\* Visibility: the per-client filter of the broadcast pass.
NextVis == AddPlayer \/ UpdateVisibleObjects \/ TickSameClock \/ ShootStart

SpecVis == Init /\ [][NextVis]_vars

\* Movement: the direction flags and the velocity a tick sets.
NextMove == AddMover \/ MoveInput \/ TickSameClock

SpecMove == Init /\ [][NextMove]_vars

\* The resolver pass among several fighters: a death during the first loop.
NextOrder == AddFighter \/ ShootStart \/ TickSameClock

SpecOrder == Init /\ [][NextOrder]_vars

\* The timer, the steps of its callback, the handlers between them and end.
NextLoop ==
    \/ AddPlayer \/ RemovePlayer
    \/ TimerFires \/ TickStart \/ TickResolve \/ TickBroadcast \/ TickReset
    \/ End

SpecLoop == Init /\ [][NextLoop]_vars

\* The transient state a tick collects and its reset clears.
NextReset ==
    \/ AddPlayer \/ RemoveQuitter \/ ShootStart \/ EmoteInput \/ Explode
    \/ TimerFires \/ TickStart \/ TickResolve \/ TickBroadcast \/ TickReset

SpecReset == Init /\ [][NextReset]_vars

\* Melee target selection among obstacles of every kind and players.
NextTarget == AddPlayer \/ ShootStartVolley \/ TickTarget

SpecTarget == InitTarget /\ [][NextTarget]_vars

\* Joins and leaves alone.
NextLife == AddFighter \/ RemovePlayer \/ TickSameClock

SpecLife == Init /\ [][NextLife]_vars

\* Leaves among players that see each other.
NextLeave == AddPlayer \/ RemoveLeaver \/ UpdateVisibleObjects \/ TickSameClock

SpecLeave == Init /\ [][NextLeave]_vars

(* ------------------------------ claims -------------------------------- *)
PlayerIds == {id \in Ids(objects) : IsPlayer(Obj(objects, id))}
Updates == {k \in 1..Len(sent) : sent[k].type = "update"}
UpdateIds(k) == Range(sent[k].full) \cup Range(sent[k].partial)
LivingActive == {id \in Range(activePlayers) : ~Obj(objects, id).dead}

\* C1: after every addPlayer or removePlayer call, aliveCount is the number
\* of players in activePlayers whose dead flag is false.
AliveCountMatchesActive ==
    lastOp \in {"addPlayer", "removePlayer"}
        => aliveCount = Cardinality(LivingActive)

\* C2: a removePlayer call on a player that was removed before leaves
\* aliveCount as it is.
RemovePlayerIdempotent ==
    [][(lastOp' = "removePlayer" /\ Obj(objects, lastArg').quit)
           => aliveCount' = aliveCount]_vars

\* C3: no identity is in fullDirtyObjects and in partialDirtyObjects at the
\* same time, neither between the callbacks nor when a tick's broadcast pass
\* reads the two lists.
DirtyListsDisjoint ==
    /\ Range(fullDirtyObjects) \cap Range(partialDirtyObjects) = {}
    /\ Range(tickDirty.full) \cap Range(tickDirty.partial) = {}

\* C8: addPlayer on a session without players leaves aliveCount at 1 and
\* writes, in this order, the joined packet, the map packet, an update
\* packet that carries the new player's own identity in fullObjects, and the
\* alive-count packet.
FreshJoinBurst ==
    (lastOp = "addPlayer" /\ Len(players) = 1) =>
        /\ aliveCount = 1
        /\ Len(sent) = 4
        /\ \A k \in 1..4 : sent[k].to = lastArg
        /\ sent[1].type = "joined"
        /\ sent[2].type = "map"
        /\ sent[3].type = "update"
        /\ lastArg \in Range(sent[3].full)
        /\ sent[4].type = "aliveCounts"
        /\ sent[4].alive = 1

\* C8 witness: the first player has just joined.
FirstPlayerJoined == lastOp = "addPlayer" /\ Len(players) = 1 /\ Len(sent) = 4

UpdateWithinVisibility ==
    \A k \in Updates : UpdateIds(k) \subseteq sent[k].visible

\* C4 as amended: every identity in an update packet is the receiver's own
\* identity or is in the receiver's visibility set when the packet is built.
UpdateWithinVisibilityOrOwn ==
    \A k \in Updates : UpdateIds(k) \subseteq (sent[k].visible \cup {sent[k].to})

\* C4 witness: a tick sent a player another object's identity, and its own
\* identity while that is outside its visibility set.
UpdateCarriesOtherAndOwn ==
    /\ lastOp = "tick"
    /\ \E k \in Updates :
          /\ sent[k].to \in UpdateIds(k) \ sent[k].visible
          /\ UpdateIds(k) \ {sent[k].to} # {}

\* C5 as stated: an animation entered in tick T returns to idle in tick T+9.
AnimIdleAtTickNine ==
    \A id \in PlayerIds :
        Obj(objects, id).animEndAge \in {-1, AnimThreshold + 1}

\* C5 as amended: an animation entered in tick T is active after every tick
\* up to T+7 with elapsed = ticks since T plus one, returns to idle (type,
\* sequence, elapsed 0) in tick T+8 and in no other tick, and an attack
\* triggered while it is active does not restart it.
AnimIdleAtTickEight ==
    \A id \in PlayerIds :
        LET p == Obj(objects, id)
        IN  /\ p.animEndAge \in {-1, AnimThreshold}
            /\ p.animActive =>
                  /\ p.animAge < AnimThreshold
                  /\ p.animTime = p.animAge + 1
                  /\ p.animType = 1
                  /\ p.animSeq = 1
            /\ ~p.animActive =>
                  (p.animType = 0 /\ p.animSeq = 0 /\ p.animTime = 0)

\* C5 witness: an animation has returned to idle after another attack was
\* triggered while it was active.
AnimEndedAfterRefire ==
    \E id \in PlayerIds :
        LET p == Obj(objects, id)
        IN  ~p.animActive /\ p.animEndAge = AnimThreshold /\ p.animRefires > 0

DamagesBy(id) == {k \in 1..Len(damages) : damages[k].by = id}
Quiet(t) ==
    /\ ~t.fired
    /\ t.cooldownAfter = t.cooldownBefore
    /\ DamagesBy(t.id) = {}

\* C6 as stated: a trigger consumed less than 250 ms after the player's
\* previous trigger neither updates meleeCooldown nor damages anything.
TriggerSoonAfterTriggerIsQuiet ==
    \A k \in 1..Len(triggers) :
        LET t == triggers[k]
        IN  (t.prevTrig # -1 /\ t.read - t.prevTrig < MeleeCooldown) => Quiet(t)

\* C6 as amended: a trigger consumed less than 250 ms after a trigger of the
\* same player that passed the cooldown check neither updates meleeCooldown
\* nor damages anything.
TriggerSoonAfterAttackIsQuiet ==
    \A k \in 1..Len(triggers) :
        LET t == triggers[k]
        IN  (t.prevFire # -1 /\ t.read - t.prevFire < MeleeCooldown) => Quiet(t)

\* C6 witness: a tick consumed a trigger less than 250 ms after an attack of
\* the same player that damaged something.
TriggerConsumedDuringCooldown ==
    /\ lastOp = "tick"
    /\ \E k \in 1..Len(triggers) :
          /\ triggers[k].prevFire # -1
          /\ triggers[k].read - triggers[k].prevFire < MeleeCooldown
          /\ triggers[k].read > triggers[k].prevFire
    /\ \E id \in Ids(objects) : Obj(objects, id).dead

DiagonalChoices(p) ==
    (IF p.movingUp /\ p.movingLeft THEN {<<-DiagonalSpeed, DiagonalSpeed>>} ELSE {})
    \cup (IF p.movingUp /\ p.movingRight THEN {<<DiagonalSpeed, DiagonalSpeed>>} ELSE {})
    \cup (IF p.movingDown /\ p.movingLeft THEN {<<-DiagonalSpeed, -DiagonalSpeed>>} ELSE {})
    \cup (IF p.movingDown /\ p.movingRight THEN {<<DiagonalSpeed, -DiagonalSpeed>>} ELSE {})
SingleChoices(p) ==
    (IF p.movingUp THEN {<<0, MovementSpeed>>} ELSE {})
    \cup (IF p.movingDown THEN {<<0, -MovementSpeed>>} ELSE {})
    \cup (IF p.movingLeft THEN {<<-MovementSpeed, 0>>} ELSE {})
    \cup (IF p.movingRight THEN {<<MovementSpeed, 0>>} ELSE {})
Flags(p) == <<p.movingUp, p.movingDown, p.movingLeft, p.movingRight>>

\* C7: after a tick the velocity of every active player is determined by
\* its four direction flags: a diagonal velocity of a held pair when a
\* diagonal pair is held, else the velocity of a held direction, else
\* (0, 0); {up,left} gives (-diagonalSpeed, diagonalSpeed), {down} gives
\* (0, -speed), and moving is false exactly when no flag is set.
VelocityFollowsFlags ==
    lastOp = "tick" =>
        \A id \in Range(activePlayers) :
            LET p == Obj(objects, id)
            IN  /\ DiagonalChoices(p) # {} => p.velocity \in DiagonalChoices(p)
                /\ (DiagonalChoices(p) = {} /\ SingleChoices(p) # {})
                      => p.velocity \in SingleChoices(p)
                /\ SingleChoices(p) = {} => p.velocity = <<0, 0>>
                /\ p.moving = (SingleChoices(p) # {})
                /\ Flags(p) = <<TRUE, FALSE, TRUE, FALSE>>
                      => p.velocity = <<-DiagonalSpeed, DiagonalSpeed>>
                /\ Flags(p) = <<FALSE, TRUE, FALSE, FALSE>>
                      => p.velocity = <<0, -MovementSpeed>>
                /\ \A other \in Range(activePlayers) :
                      Flags(Obj(objects, other)) = Flags(p)
                          => Obj(objects, other).velocity = p.velocity

\* C7 witness: a tick moved a player that holds up, left and a third
\* direction, so that a single direction and a diagonal pair compete.
TickMovedDiagonal ==
    /\ lastOp = "tick"
    /\ \E a \in Range(activePlayers) :
          /\ Flags(Obj(objects, a)) = <<TRUE, TRUE, TRUE, FALSE>>
          /\ Obj(objects, a).velocity = <<-DiagonalSpeed, DiagonalSpeed>>
          /\ Obj(objects, a).moving

MutuallyVisible(a, b) ==
    /\ b \in Obj(objects, a).visibleObjects
    /\ a \in Obj(objects, b).visibleObjects
GetsPartialOf(a, b) ==
    \E k \in Updates : sent[k].to = a /\ b \in Range(sent[k].partial)
NoAttack == \A k \in 1..Len(triggers) : ~triggers[k].fired

\* C9 as stated: two active players that a tick finds stationary, without
\* animation and mutually visible each get the other's identity in
\* partialObjects in that tick.
RestingPlayersGetPartials ==
    lastOp = "tick" =>
        \A a \in tickStart.resting, b \in tickStart.resting :
            (a # b /\ MutuallyVisible(a, b)) => GetsPartialOf(a, b)

\* C9 as amended: the same, in a tick in which no melee attack is triggered.
RestingPlayersGetPartialsWithoutAttack ==
    (lastOp = "tick" /\ NoAttack) =>
        \A a \in tickStart.resting, b \in tickStart.resting :
            (a # b /\ MutuallyVisible(a, b)) => GetsPartialOf(a, b)

\* C9 witness: a tick without attack sent two resting, mutually visible
\* players each other's identity.
RestingPairUpdated ==
    /\ lastOp = "tick"
    /\ NoAttack
    /\ \E a \in tickStart.resting, b \in tickStart.resting :
          /\ a # b
          /\ MutuallyVisible(a, b)
          /\ GetsPartialOf(a, b)
          /\ GetsPartialOf(b, a)

Registry == [i \in 1..Len(objects) |-> objects[i].id]
AddStep == Len(players') = Len(players) + 1
RemoveStep == removeCalls' = removeCalls + 1
InputStep == shots' = shots + 1
SessionStateKept ==
    /\ Registry' = Registry
    /\ fullDirtyObjects' = fullDirtyObjects
    /\ partialDirtyObjects' = partialDirtyObjects
    /\ aliveCount' = aliveCount

PacketHoldsVisible(k, dirty) ==
    \A i \in 1..Len(dirty) :
        dirty[i] \in sent[k].visible => dirty[i] \in UpdateIds(k)

TicksNeverOverlap ==
    [][/\ running' <= 1
       /\ running' = (IF pc' = "idle" THEN 0 ELSE 1)
       /\ (pc' = "resolve" /\ pc # "resolve") => (pc = "idle" /\ running = 0)
       /\ (AddStep \/ RemoveStep) => (pc = "idle" /\ pc' = "idle" /\ running = 0)]_vars

\* C13 witness: the period has elapsed while a tick is before its reset,
\* and the pending tick has not started.
TickOutlastsPeriod ==
    /\ pc \in {"resolve", "broadcast", "reset"}
    /\ due
    /\ running = 1
    /\ players # <<>>

\* C14: when end returns, the socket of every player in players is closed,
\* and no tick is running or begins in any state after end.
EndIsTerminal ==
    /\ lastOp = "end" => Range(players) \subseteq closed
    /\ ended => (pc = "idle" /\ running = 0)

\* C14 witness: end has closed a removed player and a connected one and
\* discarded a pending tick.
EndClosedEveryPlayer ==
    /\ lastOp = "end"
    /\ ended
    /\ ~timer
    /\ \E a \in closed, b \in closed :
          a \in Range(connectedPlayers) /\ b \notin Range(connectedPlayers)

ResetStep == pc = "reset" /\ pc' = "idle"

\* C17: the reset that ends a tick leaves emotes, explosions, kills,
\* fullDirtyObjects, partialDirtyObjects, dirtyPlayers and deletedPlayerIds
\* empty and aliveCountDirty false, and leaves players, connectedPlayers,
\* activePlayers and aliveCount as they are.
ResetClearsTransients ==
    [][ResetStep =>
          /\ emotes' = <<>>
          /\ explosions' = <<>>
          /\ kills' = <<>>
          /\ fullDirtyObjects' = <<>>
          /\ partialDirtyObjects' = <<>>
          /\ dirtyPlayers' = <<>>
          /\ deletedPlayerIds' = <<>>
          /\ aliveCountDirty' = FALSE
          /\ players' = players
          /\ connectedPlayers' = connectedPlayers
          /\ activePlayers' = activePlayers
          /\ aliveCount' = aliveCount]_vars

\* C17 witness: a tick has ended whose reset found emotes, explosions, a
\* kill, dirty players and the alive-count flag set.
TickClearedTransients ==
    /\ lastOp = "tick"
    /\ pc = "idle"
    /\ tickEnd.emotes # <<>>
    /\ tickEnd.explosions # <<>>
    /\ tickEnd.kills # <<>>
    /\ tickEnd.dirtyPlayers # <<>>
    /\ tickEnd.aliveCountDirty
    /\ emotes = <<>>
    /\ kills = <<>>
    /\ dirtyPlayers = <<>>

\* C15: addPlayer gives the new player the size of the registry as its
\* identity, an identity no earlier player has; in every state the object
\* at registry index i has identity i, so all identities are distinct, and
\* no identity is twice in players.
IdentitiesNeverReused ==
    [][/\ AddStep =>
            /\ lastArg' = Len(objects)
            /\ objects'[Len(objects')].id = Len(objects)
            /\ players' = Append(players, Len(objects))
            /\ lastArg' \notin Range(players)
       /\ \A i \in 1..Len(objects') : objects'[i].id = i - 1
       /\ \A i, j \in 1..Len(objects') :
             objects'[i].id = objects'[j].id => i = j
       /\ \A i, j \in 1..Len(players') : players'[i] = players'[j] => i = j]_vars

\* C15 witness: a player has joined after another player was removed.
PlayerJoinedAfterLeave ==
    /\ lastOp = "addPlayer"
    /\ \E q \in Range(players) : q # lastArg /\ Obj(objects, q).quit

\* C16: removePlayer(p) takes p out of activePlayers and connectedPlayers
\* and leaves players and the registry as they are; in every state each
\* identity in players is the identity of a player in the registry, and
\* players never loses an element.
RemovePlayerKeepsMasterList ==
    [][/\ RemoveStep =>
            /\ lastArg' \notin Range(activePlayers')
            /\ lastArg' \notin Range(connectedPlayers')
            /\ players' = players
            /\ Registry' = Registry
       /\ \A id \in Range(players') :
            /\ id \in Ids(objects')
            /\ Obj(objects', id).id = id
            /\ IsPlayer(Obj(objects', id))
       /\ Range(players) \subseteq Range(players')]_vars

\* C16 witness: a tick has run after a player was removed, and the player
\* is still in players and in the registry.
RemovedPlayerStillListed ==
    /\ lastOp = "tick"
    /\ \E q \in Range(players) :
          /\ Obj(objects, q).quit
          /\ q \notin Range(connectedPlayers)
          /\ q \notin Range(activePlayers)

NoDuplicates(list) == \A i, j \in 1..Len(list) : list[i] = list[j] => i = j

\* C20: every player in activePlayers is in connectedPlayers, every player
\* in connectedPlayers is in players, and none of the three lists holds a
\* player twice.
PlayerCollectionsNested ==
    /\ Range(activePlayers) \subseteq Range(connectedPlayers)
    /\ Range(connectedPlayers) \subseteq Range(players)
    /\ NoDuplicates(activePlayers)
    /\ NoDuplicates(connectedPlayers)
    /\ NoDuplicates(players)

\* C20 witness: one player is connected and dead, another was removed.
DeadAndRemovedPlayers ==
    /\ \E a \in Range(connectedPlayers) : a \notin Range(activePlayers)
    /\ \E b \in Range(players) : b \notin Range(connectedPlayers)

\* The objects a trigger's scan may hit: they overlap the probe, have a
\* body, were not dead when the scan ran, are not the attacker, and are a
\* player or a destructible obstacle.
Candidates(t) ==
    {id \in DOMAIN probe :
        LET o == Obj(objects, id)
        IN  /\ probe[id] > 0
            /\ o.hasBody
            /\ id \notin t.deadBefore
            /\ id # t.id
            /\ IsPlayer(o) \/ (o.kind = "obstacle" /\ o.destructible)}

\* C18: a melee attack damages, with 24, the candidate of greatest depth,
\* the first in registry order among equals; without a candidate it
\* damages nothing; a rejected trigger damages nothing; no damage call
\* goes to a dead object or to the attacker.
MeleeHitsDeepestCandidate ==
    lastOp = "tick" =>
        /\ \A k \in 1..Len(triggers) :
              LET t == triggers[k]
                  c == Candidates(t)
              IN  /\ ~t.fired => DamagesBy(t.id) = {}
                  /\ (t.fired /\ c = {}) => (t.target = -1 /\ DamagesBy(t.id) = {})
                  /\ (t.fired /\ c # {}) =>
                        /\ t.target \in c
                        /\ \A o \in c : probe[o] <= probe[t.target]
                        /\ \A o \in c : probe[o] = probe[t.target] => t.target <= o
                        /\ Cardinality(DamagesBy(t.id)) = 1
                        /\ \A h \in DamagesBy(t.id) :
                              damages[h].to = t.target /\ damages[h].amount = MeleeDamage
        /\ \A h \in 1..Len(damages) :
              /\ ~damages[h].wasDead
              /\ damages[h].to # damages[h].by
              /\ \E k \in 1..Len(triggers) :
                    triggers[k].fired /\ triggers[k].id = damages[h].by

\* C18 witness: an attack chose the first of two candidates of equal
\* greatest depth while a dead object overlapped the probe deeper.
TieBrokenPastDeadObject ==
    /\ lastOp = "tick"
    /\ \E k \in 1..Len(triggers) :
          LET t == triggers[k]
          IN  /\ t.fired
              /\ t.target # -1
              /\ \E o \in Candidates(t) :
                    o > t.target /\ probe[o] = probe[t.target]
              /\ \E d \in t.deadBefore : probe[d] > probe[t.target]
              /\ damages # <<>>

QuitPlayers == {id \in Range(players) : Obj(objects, id).quit}

\* C19: the update packets of the tick that follows removePlayer(p) carry
\* p's identity in the deleted-id list, and in partialObjects for every
\* receiver whose visibility set holds it; when that tick has ended, and in
\* every tick after it that finds no new removal of p, p's identity is in
\* neither deletedPlayerIds nor a dirty list nor a packet's deleted-id
\* list; no tick sends a packet to a removed player.
LeaveIsBroadcastOnce ==
    /\ lastOp = "tick" =>
          /\ \A q \in Range(tickStart.deleted) :
                \A k \in Updates :
                    /\ q \in Range(sent[k].deleted)
                    /\ q \in sent[k].visible => q \in Range(sent[k].partial)
          /\ \A q \in QuitPlayers :
                /\ q \notin Range(deletedPlayerIds)
                /\ q \notin Range(fullDirtyObjects)
                /\ q \notin Range(partialDirtyObjects)
                /\ q \notin Range(tickStart.deleted) =>
                      /\ q \notin Range(tickStart.full)
                      /\ q \notin Range(tickStart.partial)
                      /\ q \notin Range(tickDirty.full)
                      /\ q \notin Range(tickDirty.partial)
                      /\ \A k \in Updates :
                            q \notin Range(sent[k].deleted) \cup UpdateIds(k)
          /\ \A k \in 1..Len(sent) : sent[k].to \notin QuitPlayers
    /\ \A q \in QuitPlayers :
          q \in Range(partialDirtyObjects) => q \in Range(deletedPlayerIds)

\* C19 witness: a tick has told a connected player that sees the removed
\* player of the removal, in the deleted-id list and in partialObjects.
LeaveSeenByViewer ==
    /\ lastOp = "tick"
    /\ \E q \in Range(tickStart.deleted), k \in Updates :
          /\ q \in sent[k].visible
          /\ q \in Range(sent[k].partial)
          /\ q \in Range(sent[k].deleted)
          /\ sent[k].to # q
    /\ deletedPlayerIds = <<>>

====
